---- MODULE Spec2Model ----
(***************************************************************************)
(* Model of scripts/fetch_monkeytype.py: one run of main() fetches a       *)
(* user's MonkeyType runs, summarises them, renders an SVG badge and       *)
(* writes it to the output path.                                           *)
(*                                                                         *)
(* Conventions.                                                            *)
(*  - Text is a sequence of characters, each a one-character string; the   *)
(*    two non-ASCII characters of the source are the tokens "U+00C2" and   *)
(*    "U+00B7", one sequence element each (len() counts code points).      *)
(*  - A Python float is [k |-> "num", v |-> t], the double nearest to      *)
(*    t / 10 (120.4 is 1204), or -0.0, or [k |-> "nan"], or [k |-> "inf"]; *)
(*    an int is [k |-> "int", v |-> n].  The mean of the accuracies is     *)
(*    computed on the doubles themselves.                                  *)
(***************************************************************************)
EXTENDS Integers, Sequences, FiniteSets

\* Bounds of the model.
MaxRecords == 2     \* longest scoreboard payload drawn for fetch_stats
MaxMainRecords == 2 \* longest payload drawn for a whole run of main
MaxTextLen == 2     \* longest text over the special alphabet given to render_badge
MaxPad == 6         \* longest run of plain characters appended to such a text
MaxCuts == 3        \* most hundreds of bytes a failing flush is drawn to put in the file

Procs == {1, 2}

VARIABLES
  pc,          \* pc[p]: where run p of main() stands
  argv,        \* argv[p]: the command line of run p
  net,         \* net[p]: what the HTTP GET of run p meets
  stats,       \* stats[p]: the value fetch_stats returned to main
  wpms, accs,  \* the two lists fetch_stats collected
  value_text,  \* main's value_text
  svg,         \* main's svg
  badge,       \* the locals render_badge computed for it
  stderr,      \* lines run p printed to sys.stderr
  stdout,      \* lines run p printed to sys.stdout
  exc,         \* the exception that ended run p, "" if none
  steps,       \* the effects run p has performed, in order
  dirExists,   \* whether the parent directory of the output path exists
  file,        \* the file at the output path: [exists, content], in bytes
  fd,          \* fd[p]: run p's open file: [open, pos]
  buf,         \* buf[p]: the bytes run p's file object holds unwritten
  writes       \* the runs whose bytes reached the file, in order of arrival

vars == <<pc, argv, net, stats, wpms, accs, value_text, svg, badge, stderr, stdout, exc,
          steps, dirExists, file, fd, buf, writes>>

-----------------------------------------------------------------------------
\* Python values

Num(t) == [k |-> "num", v |-> t]
IntV(n) == [k |-> "int", v |-> n]
NaN == [k |-> "nan", v |-> 0]
Inf == [k |-> "inf", v |-> 0]
NegZero == [k |-> "negzero", v |-> 0]   \* -0.0

\* JSON values of a record's field, as float() sees them.
Absent == [k |-> "absent", v |-> 0]   \* the key is not in the mapping
Bad == [k |-> "bad", v |-> 0]         \* null, a list, a non-numeric string
JNum(t) == [k |-> "num", v |-> t]     \* a JSON number
JStr(t) == [k |-> "str", v |-> t]     \* a JSON string holding a numeral
JNaN == [k |-> "nan", v |-> 0]        \* NaN, or the string "nan"
JInf == [k |-> "inf", v |-> 0]        \* Infinity, or the string "inf"

Mapping(w, a) == [map |-> TRUE, wpm |-> w, acc |-> a]
NonMapping == [map |-> FALSE, wpm |-> Absent, acc |-> Absent]

\* float(v): the float, or the exception it raises.
float(v) ==
  CASE v.k = "num" -> [ok |-> TRUE, val |-> Num(v.v)]
    [] v.k = "str" -> [ok |-> TRUE, val |-> Num(v.v)]
    [] v.k = "int" -> [ok |-> TRUE, val |-> Num(10 * v.v)]
    [] v.k = "nan" -> [ok |-> TRUE, val |-> NaN]
    [] v.k = "inf" -> [ok |-> TRUE, val |-> Inf]
    [] v.k = "negzero" -> [ok |-> TRUE, val |-> NegZero]
    [] OTHER -> [ok |-> FALSE, val |-> NaN]

\* a > b on floats: every comparison with NaN is false.
PyGt(a, b) ==
  CASE a.k = "nan" \/ b.k = "nan" -> FALSE
    [] a.k = "inf" -> b.k # "inf"
    [] b.k = "inf" -> FALSE
    [] OTHER -> a.v > b.v

\* max(xs) of a non-empty list: the first item, replaced by each later item
\* that compares greater.
RECURSIVE MaxFrom(_, _)
MaxFrom(best, xs) ==
  IF xs = <<>> THEN best
  ELSE MaxFrom(IF PyGt(Head(xs), best) THEN Head(xs) ELSE best, Tail(xs))

max(xs) == MaxFrom(Head(xs), Tail(xs))

\* n / d rounded to an integer, ties to the even one (d > 0).
RoundDiv(n, d) ==
  LET q == n \div d
      r == n % d
  IN  IF 2 * r < d THEN q
      ELSE IF 2 * r > d THEN q + 1
      ELSE IF q % 2 = 0 THEN q ELSE q + 1

\* round(x) of a float: an int, or the exception NaN and infinity raise.
round0(x) ==
  IF x.k = "num" THEN [ok |-> TRUE, val |-> IntV(RoundDiv(x.v, 10))]
  ELSE IF x.k = "negzero" THEN [ok |-> TRUE, val |-> IntV(0)]
  ELSE [ok |-> FALSE, val |-> IntV(0)]

\* safe_int(v, default=0)
safe_int(v) ==
  LET f == float(v)
      r == round0(f.val)
  IN  IF f.ok /\ r.ok THEN r.val ELSE IntV(0)

-----------------------------------------------------------------------------
\* Double-precision arithmetic (IEEE 754 binary64, round to nearest even), for
\* sum(accs) / len(accs) and round(x, 1).  A natural number is a sequence of
\* limbs, least significant first, without leading zero limbs; a finite double
\* is [s, m, e] and stands for s * m * 2^e, with m a natural number of at most
\* MantissaBits + 1 bits (<<>> for zero) and s its sign.

Base == 2 ^ 15
MantissaBits == 53

RECURSIVE BigFromNat(_)
BigFromNat(n) == IF n = 0 THEN <<>> ELSE <<n % Base>> \o BigFromNat(n \div Base)

RECURSIVE BigToNat(_)
BigToNat(a) == IF a = <<>> THEN 0 ELSE Head(a) + Base * BigToNat(Tail(a))

RECURSIVE BigNorm(_)
BigNorm(a) ==
  IF a = <<>> THEN <<>>
  ELSE IF a[Len(a)] = 0 THEN BigNorm(SubSeq(a, 1, Len(a) - 1)) ELSE a

Limb(a) == IF a = <<>> THEN 0 ELSE Head(a)
Rest(a) == IF a = <<>> THEN <<>> ELSE Tail(a)

RECURSIVE BigAddC(_, _, _)
BigAddC(a, b, c) ==
  IF a = <<>> /\ b = <<>> THEN (IF c = 0 THEN <<>> ELSE <<c>>)
  ELSE LET x == Limb(a) + Limb(b) + c
       IN  <<x % Base>> \o BigAddC(Rest(a), Rest(b), x \div Base)

BigAdd(a, b) == BigAddC(a, b, 0)

\* a - b - c for a >= b + c, before the leading zero limbs are dropped.
RECURSIVE BigSubB(_, _, _)
BigSubB(a, b, c) ==
  IF a = <<>> THEN <<>>
  ELSE LET x == Limb(a) - Limb(b) - c
       IN  <<x % Base>> \o BigSubB(Rest(a), Rest(b), IF x < 0 THEN 1 ELSE 0)

BigSub(a, b) == BigNorm(BigSubB(a, b, 0))

\* -1, 0, 1 as a < b, a = b, a > b.
RECURSIVE BigCmp(_, _)
BigCmp(a, b) ==
  IF Len(a) # Len(b) THEN (IF Len(a) < Len(b) THEN -1 ELSE 1)
  ELSE IF a = <<>> THEN 0
  ELSE IF a[Len(a)] # b[Len(b)] THEN (IF a[Len(a)] < b[Len(b)] THEN -1 ELSE 1)
  ELSE BigCmp(SubSeq(a, 1, Len(a) - 1), SubSeq(b, 1, Len(b) - 1))

\* a * k + c for 0 <= k <= Base.
RECURSIVE BigMulC(_, _, _)
BigMulC(a, k, c) ==
  IF a = <<>> THEN BigFromNat(c)
  ELSE LET x == Head(a) * k + c
       IN  <<x % Base>> \o BigMulC(Tail(a), k, x \div Base)

BigMul(a, k) == BigNorm(BigMulC(a, k, 0))

\* The limbs 1 .. i of a, with r carried in from above, divided by k
\* (0 < k <= Base): the quotient's limbs and the remainder.
RECURSIVE BigDivFrom(_, _, _, _)
BigDivFrom(a, k, i, r) ==
  IF i = 0 THEN [q |-> <<>>, r |-> r]
  ELSE LET cur == r * Base + a[i]
           low == BigDivFrom(a, k, i - 1, cur % k)
       IN  [q |-> Append(low.q, cur \div k), r |-> low.r]

BigDiv(a, k) ==
  LET d == BigDivFrom(a, k, Len(a), 0) IN [q |-> BigNorm(d.q), r |-> d.r]

RECURSIVE ZeroLimbs(_)
ZeroLimbs(n) == IF n = 0 THEN <<>> ELSE <<0>> \o ZeroLimbs(n - 1)

\* a * 2^n and a \div 2^n.
BigShl(a, n) == IF a = <<>> THEN <<>> ELSE ZeroLimbs(n \div 15) \o BigMul(a, 2 ^ (n % 15))
BigShr(a, n) ==
  IF n \div 15 >= Len(a) THEN <<>>
  ELSE BigDiv(SubSeq(a, n \div 15 + 1, Len(a)), 2 ^ (n % 15)).q

RECURSIVE Bits(_)
Bits(x) == IF x = 0 THEN 0 ELSE 1 + Bits(x \div 2)

BitLen(a) == IF a = <<>> THEN 0 ELSE 15 * (Len(a) - 1) + Bits(a[Len(a)])

\* a \div 2^n rounded to nearest, ties to even; `sticky` says that the exact
\* value lies above a by less than one unit.
BigShrRound(a, n, sticky) ==
  LET q == BigShr(a, n)
      half == BigCmp(BigSub(a, BigShl(q, n)), BigShl(<<1>>, n - 1))
      up == half > 0 \/ (half = 0 /\ (sticky \/ Limb(q) % 2 = 1))
  IN  IF up THEN BigAdd(q, <<1>>) ELSE q

\* The double nearest to s * n * 2^e (plus the sticky part).
ToDouble(s, n, e, sticky) ==
  LET len == BitLen(n)
  IN  IF n = <<>> THEN [s |-> s, m |-> <<>>, e |-> 0]
      ELSE IF len <= MantissaBits
      THEN [s |-> s, m |-> BigShl(n, MantissaBits - len), e |-> e - (MantissaBits - len)]
      ELSE [s |-> s, m |-> BigShrRound(n, len - MantissaBits, sticky),
            e |-> e + (len - MantissaBits)]

\* The double a float of the model stands for: the one nearest to t / 10.
DoubleOf(x) ==
  IF x.k = "negzero" THEN [s |-> -1, m |-> <<>>, e |-> 0]
  ELSE LET a == IF x.v < 0 THEN -x.v ELSE x.v
           d == BigDiv(BigShl(BigFromNat(a), 60), 10)
       IN  ToDouble(IF x.v < 0 THEN -1 ELSE 1, d.q, -60, d.r # 0)

\* x + y
DoubleAdd(x, y) ==
  LET e == IF x.e < y.e THEN x.e ELSE y.e
      nx == BigShl(x.m, x.e - e)
      ny == BigShl(y.m, y.e - e)
      c == BigCmp(nx, ny)
  IN  IF x.m = <<>> /\ y.m = <<>>
      THEN [s |-> IF x.s = -1 /\ y.s = -1 THEN -1 ELSE 1, m |-> <<>>, e |-> 0]
      ELSE IF x.m = <<>> THEN y
      ELSE IF y.m = <<>> THEN x
      ELSE IF x.s = y.s THEN ToDouble(x.s, BigAdd(nx, ny), e, FALSE)
      ELSE IF c = 0 THEN [s |-> 1, m |-> <<>>, e |-> 0]
      ELSE IF c > 0 THEN ToDouble(x.s, BigSub(nx, ny), e, FALSE)
      ELSE ToDouble(y.s, BigSub(ny, nx), e, FALSE)

\* x / k for an int k, 0 < k <= Base.
DoubleDiv(x, k) ==
  LET d == BigDiv(BigShl(x.m, 30), k)
  IN  ToDouble(x.s, d.q, x.e - 30, d.r # 0)

\* round(x, 1): the float nearest to x with one decimal, ties of the exact
\* binary value to the even tenth.
DoubleRound1(x) ==
  LET n == BigMul(x.m, 10)
      tenths == IF x.e >= 0 THEN BigShl(n, x.e) ELSE BigShrRound(n, -x.e, FALSE)
      t == BigToNat(tenths)
  IN  IF t = 0 THEN (IF x.s = -1 THEN NegZero ELSE Num(0)) ELSE Num(x.s * t)

\* The float part of sum(xs), items added left to right.
RECURSIVE DoubleSum(_, _)
DoubleSum(acc, xs) ==
  IF xs = <<>> THEN acc ELSE DoubleSum(DoubleAdd(acc, DoubleOf(Head(xs))), Tail(xs))

\* sum(xs) / len(xs) rounded to one decimal; NaN if an item is NaN, else
\* infinity if one is infinite.
MeanRounded(xs) ==
  IF \E i \in 1..Len(xs) : xs[i].k = "nan" THEN NaN
  ELSE IF \E i \in 1..Len(xs) : xs[i].k = "inf" THEN Inf
  ELSE DoubleRound1(DoubleDiv(DoubleSum(DoubleOf(Num(0)), xs), Len(xs)))

-----------------------------------------------------------------------------
\* Text

Digit(d) == <<"0", "1", "2", "3", "4", "5", "6", "7", "8", "9">>[d + 1]

RECURSIVE NatStr(_)
NatStr(n) == IF n < 10 THEN <<Digit(n)>> ELSE Append(NatStr(n \div 10), Digit(n % 10))

\* str(n) of an int.
IntStr(n) == IF n < 0 THEN <<"-">> \o NatStr(-n) ELSE NatStr(n)

\* str(x) of a float with at most one decimal, given in tenths.
TenthsStr(t) ==
  LET a == IF t < 0 THEN -t ELSE t
  IN  (IF t < 0 THEN <<"-">> ELSE <<>>) \o NatStr(a \div 10) \o <<".", Digit(a % 10)>>

\* str(v) as an f-string field renders it.
str(v) ==
  CASE v.k = "int" -> IntStr(v.v)
    [] v.k = "num" -> TenthsStr(v.v)
    [] v.k = "negzero" -> <<"-", "0", ".", "0">>
    [] v.k = "nan" -> <<"n", "a", "n">>
    [] OTHER -> <<"i", "n", "f">>

-----------------------------------------------------------------------------
\* fetch_stats

\* What requests.get meets: an exception, or a response with a status code
\* and a body that res.json() decodes to `data` or fails to decode.
Response(e, code, decodes, isList, items) ==
  [exc |-> e, status_code |-> code, decodes |-> decodes, isList |-> isList, data |-> items]

None == [some |-> FALSE, best_wpm |-> IntV(0), avg_acc |-> IntV(0)]
Summary(best, avg) == [some |-> TRUE, best_wpm |-> best, avg_acc |-> avg]

\* print(..., file=sys.stderr) lines, without their variable parts.
RequestFailed == "Request failed:"
UnexpectedStatus == "Unexpected status"
DecodeFailed == "Failed to decode JSON:"

\* `except Exception` around requests.get: which exceptions it catches.
RequestTimeoutOnly(e) == e = "timeout"
RequestCaught(e) == TRUE

\* The diagnostic printed for a response whose status is not 200.
StatusSilent(resp) == <<>>
StatusDiagnostic(resp) == <<UnexpectedStatus>>

\* `not isinstance(data, list) or len(data) == 0`
RejectsOnlyNonList(resp) == ~resp.isList
ShapeRejected(resp) == ~resp.isList \/ Len(resp.data) = 0

\* One pass of the loop body over `item`: each field in its own try.
OneTryForBoth(item, lists) ==
  IF ~item.map THEN lists
  ELSE IF item.wpm.k # "absent" /\ ~float(item.wpm).ok THEN lists
  ELSE LET ws == IF item.wpm.k # "absent"
                 THEN Append(lists.wpms, float(item.wpm).val) ELSE lists.wpms
           as == IF item.acc.k # "absent" /\ float(item.acc).ok
                 THEN Append(lists.accs, float(item.acc).val) ELSE lists.accs
       IN  [wpms |-> ws, accs |-> as]
LoopBody(item, lists) ==
  IF ~item.map THEN lists
  ELSE LET ws == IF item.wpm.k # "absent" /\ float(item.wpm).ok
                 THEN Append(lists.wpms, float(item.wpm).val) ELSE lists.wpms
           as == IF item.acc.k # "absent" /\ float(item.acc).ok
                 THEN Append(lists.accs, float(item.acc).val) ELSE lists.accs
       IN  [wpms |-> ws, accs |-> as]

\* for item in data: ...
RECURSIVE Collect(_, _)
Collect(data, lists) ==
  IF data = <<>> THEN lists ELSE Collect(Tail(data), LoopBody(Head(data), lists))

\* best_wpm = safe_int(max(wpms) if wpms else 0)
best_wpm(ws) == safe_int(IF ws # <<>> THEN max(ws) ELSE IntV(0))

\* avg_acc = round((sum(accs) / len(accs)) if accs else 0, 1)
avg_acc(as) == IF as # <<>> THEN MeanRounded(as) ELSE IntV(0)

\* fetch_stats(username): what it returns, what it prints to stderr, the
\* lists it collected, and the exception it lets escape ("" if none).
fetch_stats(resp) ==
  LET quiet == [raised |-> "", ret |-> None, err |-> <<>>, wpms |-> <<>>, accs |-> <<>>]
  IN  IF resp.exc # "none" THEN
        IF RequestCaught(resp.exc) THEN [quiet EXCEPT !.err = <<RequestFailed>>]
        ELSE [quiet EXCEPT !.raised = resp.exc]
      ELSE IF resp.status_code # 200 THEN [quiet EXCEPT !.err = StatusDiagnostic(resp)]
      ELSE IF ~resp.decodes THEN
        [quiet EXCEPT !.err = <<DecodeFailed>>]
      ELSE IF ShapeRejected(resp) THEN quiet
      ELSE LET lists == Collect(resp.data, [wpms |-> <<>>, accs |-> <<>>])
           IN  [raised |-> "",
                ret |-> Summary(best_wpm(lists.wpms), avg_acc(lists.accs)),
                err |-> <<>>, wpms |-> lists.wpms, accs |-> lists.accs]

-----------------------------------------------------------------------------
\* main's label

Text_no_data == <<"n", "o", " ", "d", "a", "t", "a">>

\* The literal between the two fields of main's f-string: " WPM ", the two
\* characters U+00C2 U+00B7 the source file holds, and a space.
Separator == <<" ", "W", "P", "M", " ", "U+00C2", "U+00B7", " ">>

\* if not stats: "no data" else f"{stats['best_wpm']} WPM .. {stats['avg_acc']}%"
ValueText(s) ==
  IF ~s.some THEN Text_no_data
  ELSE str(s.best_wpm) \o Separator \o str(s.avg_acc) \o <<"%">>

-----------------------------------------------------------------------------
\* render_badge

Lit(cs) == [field |-> "", text |-> cs]
Field(name) == [field |-> name, text |-> <<>>]

BADGE_TEMPLATE ==
  << Lit(<<"<","s","v","g"," ","x","m","l","n","s","=","\"","h","t","t","p",":","/","/","w","w","w",".","w","3",".","o","r","g","/","2","0","0","0","/","s","v","g","\""," ","w","i","d","t","h","=","\"">>),
     Field("width"),
     Lit(<<"\""," ","h","e","i","g","h","t","=","\"","2","0","\""," ","v","i","e","w","B","o","x","=","\"","0"," ","0"," ">>),
     Field("width"),
     Lit(<<" ","2","0","\""," ","r","o","l","e","=","\"","i","m","g","\""," ","a","r","i","a","-","l","a","b","e","l","=","\"","M","o","n","k","e","y","T","y","p","e",":"," ">>),
     Field("label"),
     Lit(<<"\"",">","\n"," "," ","<","t","i","t","l","e",">","M","o","n","k","e","y","T","y","p","e",":"," ">>),
     Field("label"),
     Lit(<<"<","/","t","i","t","l","e",">","\n"," "," ","<","l","i","n","e","a","r","G","r","a","d","i","e","n","t"," ","i","d","=","\"","g","\""," ","x","2","=","\"","0","\""," ","y","2","=","\"","1","0","0","%","\"",">","\n"," "," "," "," ","<","s","t","o","p"," ","o","f","f","s","e","t","=","\"","0","\""," ","s","t","o","p","-","c","o","l","o","r","=","\"","#","b","b","b","\""," ","s","t","o","p","-","o","p","a","c","i","t","y","=","\"",".","1","\"","/",">","\n"," "," "," "," ","<","s","t","o","p"," ","o","f","f","s","e","t","=","\"","1","\""," ","s","t","o","p","-","o","p","a","c","i","t","y","=","\"",".","1","\"","/",">","\n"," "," ","<","/","l","i","n","e","a","r","G","r","a","d","i","e","n","t",">","\n"," "," ","<","r","e","c","t"," ","r","x","=","\"","3","\""," ","w","i","d","t","h","=","\"">>),
     Field("width"),
     Lit(<<"\""," ","h","e","i","g","h","t","=","\"","2","0","\""," ","f","i","l","l","=","\"","#","5","5","5","\"","/",">","\n"," "," ","<","r","e","c","t"," ","r","x","=","\"","3","\""," ","x","=","\"">>),
     Field("left_width"),
     Lit(<<"\""," ","w","i","d","t","h","=","\"">>),
     Field("right_width"),
     Lit(<<"\""," ","h","e","i","g","h","t","=","\"","2","0","\""," ","f","i","l","l","=","\"","#","2","a","a","1","9","8","\"","/",">","\n"," "," ","<","r","e","c","t"," ","r","x","=","\"","3","\""," ","w","i","d","t","h","=","\"">>),
     Field("width"),
     Lit(<<"\""," ","h","e","i","g","h","t","=","\"","2","0","\""," ","f","i","l","l","=","\"","u","r","l","(","#","g",")","\"","/",">","\n"," "," ","<","g"," ","f","i","l","l","=","\"","#","f","f","f","\""," ","t","e","x","t","-","a","n","c","h","o","r","=","\"","m","i","d","d","l","e","\""," ","f","o","n","t","-","f","a","m","i","l","y","=","\"","D","e","j","a","V","u"," ","S","a","n","s",",","V","e","r","d","a","n","a",",","G","e","n","e","v","a",",","s","a","n","s","-","s","e","r","i","f","\""," ","f","o","n","t","-","s","i","z","e","=","\"","1","1","\"",">","\n"," "," "," "," ","<","t","e","x","t"," ","x","=","\"">>),
     Field("left_center"),
     Lit(<<"\""," ","y","=","\"","1","4","\""," ","f","i","l","l","=","\"","#","f","f","f","\"",">","M","o","n","k","e","y","T","y","p","e","<","/","t","e","x","t",">","\n"," "," "," "," ","<","t","e","x","t"," ","x","=","\"">>),
     Field("right_center"),
     Lit(<<"\""," ","y","=","\"","1","4","\""," ","f","i","l","l","=","\"","#","f","f","f","\"",">">>),
     Field("value_text"),
     Lit(<<"<","/","t","e","x","t",">","\n"," "," ","<","/","g",">","\n","<","/","s","v","g",">","\n">>) >>

\* s.replace(old, new) for a one-character old.
RECURSIVE Replace(_, _, _)
Replace(s, old, new) ==
  IF s = <<>> THEN <<>>
  ELSE (IF Head(s) = old THEN new ELSE <<Head(s)>>) \o Replace(Tail(s), old, new)

Amp == <<"&", "a", "m", "p", ";">>
Lt == <<"&", "l", "t", ";">>
Gt == <<"&", "g", "t", ";">>
Quot == <<"&", "q", "u", "o", "t", ";">>
Apos == <<"&", "#", "x", "2", "7", ";">>

\* html.escape(s): & first, then <, >, and the two quotes.
EscapeAmpLast(s) ==
  Replace(Replace(Replace(Replace(Replace(s, "<", Lt), ">", Gt), "\"", Quot), "'", Apos),
          "&", Amp)
escape(s) ==
  Replace(Replace(Replace(Replace(Replace(s, "&", Amp), "<", Lt), ">", Gt), "\"", Quot),
          "'", Apos)

left_width == 72

\* right_width = max(60, 7 * len(value_text) + 20)
RightWidthNoPadding(n) == IF 7 * n > 60 THEN 7 * n ELSE 60
right_width(n) == IF 7 * n + 20 > 60 THEN 7 * n + 20 ELSE 60

\* The locals of render_badge; the two centres are floats (true division).
Geometry(value) ==
  LET rw == right_width(Len(value))
  IN  [left_width |-> left_width,
       right_width |-> rw,
       width |-> left_width + rw,
       left_center |-> Num(5 * left_width),
       right_center |-> Num(10 * left_width + 5 * rw)]

NoGeometry ==
  [left_width |-> 0, right_width |-> 0, width |-> 0, left_center |-> Num(0),
   right_center |-> Num(0)]

\* BADGE_TEMPLATE.format(**args)
RECURSIVE Format(_, _)
Format(template, args) ==
  IF template = <<>> THEN <<>>
  ELSE LET part == Head(template)
       IN  (IF part.field = "" THEN part.text ELSE args[part.field])
           \o Format(Tail(template), args)

render_badge(value) ==
  LET g == Geometry(value)
  IN  Format(BADGE_TEMPLATE,
             [width |-> IntStr(g.width),
              left_width |-> IntStr(g.left_width),
              right_width |-> IntStr(g.right_width),
              left_center |-> str(g.left_center),
              right_center |-> str(g.right_center),
              label |-> escape(value),
              value_text |-> escape(value)])

-----------------------------------------------------------------------------
\* The output file

NoFile == [exists |-> FALSE, content |-> <<>>]
Closed == [open |-> FALSE, pos |-> 0]

\* encoding="utf-8": the bytes of a text; each of the two non-ASCII characters
\* of the label takes two bytes.
Utf8Char(c) ==
  CASE c = "U+00C2" -> <<"0xC3", "0x82">>
    [] c = "U+00B7" -> <<"0xC2", "0xB7">>
    [] OTHER -> <<c>>

RECURSIVE Utf8(_)
Utf8(s) ==
  IF s = <<>> THEN <<>>
  ELSE IF Len(s) = 1 THEN Utf8Char(s[1])
  ELSE LET h == Len(s) \div 2
       IN  Utf8(SubSeq(s, 1, h)) \o Utf8(SubSeq(s, h + 1, Len(s)))

\* A file left at the output path by something else, longer than any badge.
Stale == [exists |-> TRUE, content |-> Utf8(render_badge(<<>>) \o render_badge(<<>>))]

RECURSIVE Zeros(_)
Zeros(n) == IF n <= 0 THEN <<>> ELSE <<"NUL">> \o Zeros(n - 1)

\* write(2) of `data` at offset `pos` of a file not opened for appending:
\* the bytes at pos .. pos + len - 1 are replaced, the rest kept.
WriteAppending(content, pos, data) == content \o data
WriteAt(content, pos, data) ==
  SubSeq(content, 1, pos) \o Zeros(pos - Len(content)) \o data
    \o SubSeq(content, pos + Len(data) + 1, Len(content))

\* The lengths, short of the whole buffer of n bytes, at which a failing
\* flush is drawn to stop: 0 and the hundreds up to MaxCuts.
Cuts(n) == {100 * i : i \in 0..MaxCuts} \cap 0..(n - 1)

Confirmation == "Wrote badge to"

\* parser.parse_args(): what argparse prints and the status it exits with
\* ("" when it returns the arguments).
Usage == "usage: fetch_monkeytype.py [-h] --username USERNAME [--output OUTPUT]"
UsageError(msg) == [exit |-> "SystemExit(2)", err |-> <<Usage, msg>>, out |-> <<>>]
Help ==
  <<Usage, "", "options:", "  -h, --help           show this help message and exit",
    "  --username USERNAME", "  --output OUTPUT">>
parse_args(a) ==
  CASE a = "username" -> [exit |-> "", err |-> <<>>, out |-> <<>>]
    [] a = "help" -> [exit |-> "SystemExit(0)", err |-> <<>>, out |-> Help]
    [] a = "none" ->
         UsageError("fetch_monkeytype.py: error: the following arguments are required: --username")
    [] a = "username without value" ->
         UsageError("fetch_monkeytype.py: error: argument --username: expected one argument")
    [] a = "unrecognized" ->
         UsageError("fetch_monkeytype.py: error: unrecognized arguments: --bogus")

-----------------------------------------------------------------------------
\* main

\* The statements of main, in the order it runs them.
PrintBeforeWrite ==
  <<"parse_args", "fetch_stats", "value_text", "render_badge", "makedirs", "print",
    "open", "write", "close">>
MainOrder ==
  <<"parse_args", "fetch_stats", "value_text", "render_badge", "makedirs", "open",
    "write", "close", "print">>

After(s) ==
  LET i == CHOOSE j \in 1..Len(MainOrder) : MainOrder[j] = s
  IN  IF i = Len(MainOrder) THEN "done" ELSE MainOrder[i + 1]

Advance(p, s) ==
  /\ pc' = [pc EXCEPT ![p] = After(s)]
  /\ steps' = [steps EXCEPT ![p] = Append(@, s)]

\* An exception nothing catches ends the run.
Crash(p, e) ==
  /\ pc' = [pc EXCEPT ![p] = "crashed"]
  /\ exc' = [exc EXCEPT ![p] = e]
  /\ UNCHANGED steps

\* sys.exit, called by argparse: SystemExit ends the run.
Exit(p, status) ==
  /\ pc' = [pc EXCEPT ![p] = "exited"]
  /\ exc' = [exc EXCEPT ![p] = status]
  /\ UNCHANGED steps

\* args = parser.parse_args()
ParseArgs(p) ==
  /\ pc[p] = "parse_args"
  /\ LET r == parse_args(argv[p])
     IN  /\ stderr' = [stderr EXCEPT ![p] = @ \o r.err]
         /\ stdout' = [stdout EXCEPT ![p] = @ \o r.out]
         /\ IF r.exit # ""
            THEN Exit(p, r.exit)
            ELSE Advance(p, "parse_args") /\ UNCHANGED exc
  /\ UNCHANGED <<argv, net, badge, stats, wpms, accs, value_text, svg, dirExists, file, fd,
                 writes, buf>>

\* stats = fetch_stats(args.username)
FetchStats(p) ==
  /\ pc[p] = "fetch_stats"
  /\ LET r == fetch_stats(net[p])
     IN  IF r.raised # ""
         THEN /\ Crash(p, r.raised)
              /\ UNCHANGED <<stats, wpms, accs, stderr, buf>>
         ELSE /\ stats' = [stats EXCEPT ![p] = r.ret]
              /\ wpms' = [wpms EXCEPT ![p] = r.wpms]
              /\ accs' = [accs EXCEPT ![p] = r.accs]
              /\ stderr' = [stderr EXCEPT ![p] = @ \o r.err]
              /\ Advance(p, "fetch_stats")
              /\ UNCHANGED exc
  /\ UNCHANGED <<argv, net, badge, value_text, svg, stdout, dirExists, file, fd, writes, buf>>

\* value_text = "no data" or the formatted label
FormatLabel(p) ==
  /\ pc[p] = "value_text"
  /\ value_text' = [value_text EXCEPT ![p] = ValueText(stats[p])]
  /\ Advance(p, "value_text")
  /\ UNCHANGED <<argv, net, badge, stats, wpms, accs, svg, stderr, stdout, exc, dirExists, file,
                 fd, writes, buf>>

\* svg = render_badge(value_text)
RenderBadge(p) ==
  /\ pc[p] = "render_badge"
  /\ svg' = [svg EXCEPT ![p] = render_badge(value_text[p])]
  /\ badge' = [badge EXCEPT ![p] = Geometry(value_text[p])]
  /\ Advance(p, "render_badge")
  /\ UNCHANGED <<argv, net, stats, wpms, accs, value_text, stderr, stdout, exc, dirExists,
                 file, fd, writes, buf>>

\* os.makedirs(os.path.dirname(args.output) or ".", exist_ok=True)
MakeDirs(p) ==
  /\ pc[p] = "makedirs"
  /\ dirExists' = TRUE
  /\ Advance(p, "makedirs")
  /\ UNCHANGED <<argv, net, badge, stats, wpms, accs, value_text, svg, stderr, stdout, exc, file,
                 fd, writes, buf>>

\* os.makedirs cannot create the missing directory.
MakeDirsFails(p) ==
  /\ pc[p] = "makedirs"
  /\ ~dirExists
  /\ Crash(p, "OSError")
  /\ UNCHANGED <<argv, net, badge, stats, wpms, accs, value_text, svg, stderr, stdout, dirExists,
                 file, fd, writes, buf>>

\* open(args.output, "w", encoding="utf-8"): creates or truncates the file.
OpenFile(p) ==
  /\ pc[p] = "open"
  /\ dirExists
  /\ file' = [exists |-> TRUE, content |-> <<>>]
  /\ fd' = [fd EXCEPT ![p] = [open |-> TRUE, pos |-> 0]]
  /\ Advance(p, "open")
  /\ UNCHANGED <<argv, net, badge, stats, wpms, accs, value_text, svg, stderr, stdout, exc,
                 dirExists, writes, buf>>

\* open() is refused (the path is not writable).
OpenFails(p) ==
  /\ pc[p] = "open"
  /\ Crash(p, "OSError")
  /\ UNCHANGED <<argv, net, badge, stats, wpms, accs, value_text, svg, stderr, stdout, dirExists,
                 file, fd, writes, buf>>

\* f.write(svg): the encoded markup goes to the file object's buffer, which
\* holds more than any badge; the file and the descriptor are left alone.
WriteFile(p) ==
  /\ pc[p] = "write"
  /\ fd[p].open
  /\ buf' = [buf EXCEPT ![p] = Utf8(svg[p])]
  /\ Advance(p, "write")
  /\ UNCHANGED <<argv, net, badge, stats, wpms, accs, value_text, svg, stderr, stdout, exc,
                 dirExists, file, fd, writes>>

\* The end of the with block: close() flushes the buffer with one write(2) at
\* the descriptor's offset, then closes the descriptor.
CloseFile(p) ==
  /\ pc[p] = "close"
  /\ fd[p].open
  /\ file' = [file EXCEPT !.content = WriteAt(@, fd[p].pos, buf[p])]
  /\ writes' = Append(writes, p)
  /\ buf' = [buf EXCEPT ![p] = <<>>]
  /\ fd' = [fd EXCEPT ![p] = Closed]
  /\ Advance(p, "close")
  /\ UNCHANGED <<argv, net, badge, stats, wpms, accs, value_text, svg, stderr, stdout, exc,
                 dirExists>>

\* The flush fails (the device is full, the file would grow beyond its
\* limit): write(2) has put the first bytes of the buffer in the file, or
\* none, when it is refused; close() still closes the descriptor and the
\* OSError leaves the with block.
CloseFails(p) ==
  /\ pc[p] = "close"
  /\ fd[p].open
  /\ \E n \in Cuts(Len(buf[p])) :
       file' = [file EXCEPT !.content = WriteAt(@, fd[p].pos, SubSeq(buf[p], 1, n))]
  /\ buf' = [buf EXCEPT ![p] = <<>>]
  /\ fd' = [fd EXCEPT ![p] = Closed]
  /\ Crash(p, "OSError")
  /\ UNCHANGED <<argv, net, badge, stats, wpms, accs, value_text, svg, stderr, stdout, dirExists,
                 writes>>

\* print(f"Wrote badge to {args.output}")
PrintConfirmation(p) ==
  /\ pc[p] = "print"
  /\ stdout' = [stdout EXCEPT ![p] = Append(@, Confirmation)]
  /\ Advance(p, "print")
  /\ UNCHANGED <<argv, net, badge, stats, wpms, accs, value_text, svg, stderr, exc, dirExists,
                 file, fd, writes, buf>>

main(p) ==
  \/ ParseArgs(p)
  \/ FetchStats(p)
  \/ FormatLabel(p)
  \/ RenderBadge(p)
  \/ MakeDirs(p)
  \/ MakeDirsFails(p)
  \/ OpenFile(p)
  \/ OpenFails(p)
  \/ WriteFile(p)
  \/ CloseFile(p)
  \/ CloseFails(p)
  \/ PrintConfirmation(p)

-----------------------------------------------------------------------------
\* Inputs

SeqsUpTo(S, n) == UNION {[1..k -> S] : k \in 0..n}

Timeout == Response("timeout", 0, FALSE, FALSE, <<>>)
ConnectionError == Response("connection", 0, FALSE, FALSE, <<>>)
BadStatus(code) == Response("none", code, FALSE, FALSE, <<>>)
NotJson == Response("none", 200, FALSE, FALSE, <<>>)
NotAList == Response("none", 200, TRUE, FALSE, <<>>)
Payload(items) == Response("none", 200, TRUE, TRUE, items)

Failures == {Timeout, ConnectionError, BadStatus(204), BadStatus(404), BadStatus(500),
             NotJson, NotAList}

\* Field values of the payloads drawn for fetch_stats.  The accuracies 97.3
\* and 97.4 have a mean halfway between two tenths; -0.3 and 0.2 have a sum
\* just above -0.1 and a mean that rounds to -0.0.
WpmValues == {Absent, Bad, JNaN, JStr(1100), JNum(1205)}
AccValues == {Absent, Bad, JNum(973), JNum(974), JNum(-3), JNum(2)}
FetchItems == {NonMapping} \cup {Mapping(w, a) : w \in WpmValues, a \in AccValues}
FetchResponses == Failures \cup {Payload(d) : d \in SeqsUpTo(FetchItems, MaxRecords)}

\* The payloads drawn for a whole run: the records of the scoreboard example,
\* a record 0.1 above the first in accuracy, two whose accuracies have a
\* mean that rounds to -0.0, one with neither field, and an entry that is no
\* mapping.
MainItems == {Mapping(JNum(1204), JNum(972)), Mapping(JNum(1100), JNum(950)),
              Mapping(JNum(1100), JNum(973)), Mapping(Absent, JNum(-3)),
              Mapping(Absent, JNum(2)), Mapping(Absent, Absent), NonMapping}
MainResponses == Failures \cup {Payload(d) : d \in SeqsUpTo(MainItems, MaxMainRecords)}

Scoreboard == Payload(<<Mapping(JNum(1204), JNum(972)), Mapping(JNum(1100), JNum(950))>>)
RaceResponses == {Timeout, Scoreboard}

\* Texts given to render_badge: every text over the alphabet up to MaxTextLen,
\* followed by up to MaxPad plain characters.
Alphabet == {"<", ">", "&", "\"", "'", "a"}
RECURSIVE Pad(_)
Pad(n) == IF n = 0 THEN <<>> ELSE <<"x">> \o Pad(n - 1)
Texts == {t \o Pad(n) : t \in SeqsUpTo(Alphabet, MaxTextLen), n \in 0..MaxPad}

\* Command lines: --username u, -h, no arguments, --username alone, and
\* --username u --bogus.
Args == {"username", "help", "none", "username without value", "unrecognized"}

-----------------------------------------------------------------------------
\* Specifications

InitRun ==
  /\ stats = [p \in Procs |-> None]
  /\ wpms = [p \in Procs |-> <<>>]
  /\ accs = [p \in Procs |-> <<>>]
  /\ svg = [p \in Procs |-> <<>>]
  /\ badge = [p \in Procs |-> NoGeometry]
  /\ stderr = [p \in Procs |-> <<>>]
  /\ stdout = [p \in Procs |-> <<>>]
  /\ exc = [p \in Procs |-> ""]
  /\ steps = [p \in Procs |-> <<>>]
  /\ fd = [p \in Procs |-> Closed]
  /\ buf = [p \in Procs |-> <<>>]
  /\ writes = <<>>

InitFiles ==
  /\ dirExists \in BOOLEAN
  /\ file \in (IF dirExists THEN {NoFile, Stale} ELSE {NoFile})

\* One run of main.
Init ==
  /\ InitRun
  /\ InitFiles
  /\ pc = [p \in Procs |-> IF p = 1 THEN MainOrder[1] ELSE "idle"]
  /\ \E a \in Args : argv = [p \in Procs |-> IF p = 1 THEN a ELSE "username"]
  /\ \E r \in MainResponses : net = [p \in Procs |-> IF p = 1 THEN r ELSE Timeout]
  /\ value_text = [p \in Procs |-> <<>>]

Next == \E p \in Procs : main(p)

Spec == Init /\ [][Next]_vars

\* fetch_stats alone, on every response drawn.
InitFetch ==
  /\ InitRun
  /\ dirExists = FALSE
  /\ file = NoFile
  /\ pc = [p \in Procs |-> IF p = 1 THEN "fetch_stats" ELSE "idle"]
  /\ argv = [p \in Procs |-> "username"]
  /\ \E r \in FetchResponses : net = [p \in Procs |-> IF p = 1 THEN r ELSE Timeout]
  /\ value_text = [p \in Procs |-> <<>>]

NextFetch == \E p \in Procs : FetchStats(p)

SpecFetch == InitFetch /\ [][NextFetch]_vars

\* render_badge alone, on every text drawn.
InitRender ==
  /\ InitRun
  /\ dirExists = FALSE
  /\ file = NoFile
  /\ pc = [p \in Procs |-> IF p = 1 THEN "render_badge" ELSE "idle"]
  /\ argv = [p \in Procs |-> "username"]
  /\ net = [p \in Procs |-> Timeout]
  /\ \E t \in Texts : value_text = [p \in Procs |-> IF p = 1 THEN t ELSE <<>>]

NextRender == \E p \in Procs : RenderBadge(p)

SpecRender == InitRender /\ [][NextRender]_vars

\* Two runs of main against the same output path.
InitRace ==
  /\ InitRun
  /\ InitFiles
  /\ pc = [p \in Procs |-> MainOrder[1]]
  /\ argv \in [Procs -> {"username"}]
  /\ net \in [Procs -> RaceResponses]
  /\ value_text = [p \in Procs |-> <<>>]

SpecRace == InitRace /\ [][Next]_vars

-----------------------------------------------------------------------------
\* Vocabulary of the properties

\* fetch_stats has returned to run p.
Fetched(p) == pc[p] \notin {"parse_args", "exited", "fetch_stats", "idle", "crashed"}

\* The four failure kinds of a request.
TransportFailure(r) == r.exc # "none"
NonSuccessStatus(r) == r.exc = "none" /\ ~(r.status_code >= 200 /\ r.status_code < 300)
UndecodableBody(r) == r.exc = "none" /\ r.status_code = 200 /\ ~r.decodes
NotANonEmptyList(r) ==
  r.exc = "none" /\ r.status_code = 200 /\ r.decodes /\ (~r.isList \/ r.data = <<>>)
FailedRequest(r) ==
  TransportFailure(r) \/ NonSuccessStatus(r) \/ UndecodableBody(r) \/ NotANonEmptyList(r)

\* A response that decodes to a list of records, possibly empty.
RecordList(r) == r.exc = "none" /\ r.status_code = 200 /\ r.decodes /\ r.isList

\* A field value that converts to a float, and the float it converts to.
Coercible(v) == v.k \in {"num", "str", "nan", "inf"}
Coerced(v) == IF v.k \in {"num", "str"} THEN Num(v.v) ELSE [k |-> v.k, v |-> 0]

\* The positions of `data` that contribute a value of field f ("wpm", "acc").
Contributors(data, f) ==
  {i \in 1..Len(data) : data[i].map /\ Coercible(data[i][f])}

\* xs lists exactly the values of field f of the contributors, in order.
ListsField(xs, data, f) ==
  LET idx == Contributors(data, f)
  IN  /\ Len(xs) = Cardinality(idx)
      /\ \A i \in idx : xs[Cardinality({j \in idx : j <= i})] = Coerced(data[i][f])

\* The permutations of a sequence.
Permutations(s) ==
  {[i \in 1..Len(s) |-> s[f[i]]] :
     f \in {g \in [1..Len(s) -> 1..Len(s)] : \A a, b \in 1..Len(s) : g[a] = g[b] => a = b}}

\* The exact sum of a list of floats, in tenths.
RECURSIVE Total(_)
Total(xs) == IF xs = <<>> THEN 0 ELSE Head(xs).v + Total(Tail(xs))

Abs(n) == IF n < 0 THEN -n ELSE n

IsPrefix(s, t) == Len(s) <= Len(t) /\ s = SubSeq(t, 1, Len(s))

Count(s, c) == Cardinality({i \in 1..Len(s) : s[i] = c})

-----------------------------------------------------------------------------
\* C1: whenever the request of fetch_stats fails (transport exception,
\* non-success status, undecodable body, or a payload that is not a non-empty
\* list), fetch_stats lets no exception escape and returns None, never a
\* summary.
C1_AbsentOnFailure ==
  \A p \in Procs :
    (pc[p] \notin {"parse_args", "exited", "fetch_stats", "idle"} /\ FailedRequest(net[p]))
      => /\ pc[p] # "crashed"
         /\ exc[p] = ""
         /\ ~stats[p].some
         /\ stats[p] = None

C1_Witness ==
  /\ Fetched(1)
  /\ net[1] = ConnectionError
  /\ stats[1] = None

\* C2: for a fetched list with at least one numeric wpm, best_wpm is the
\* maximum of the numeric wpm values rounded to a nearest integer, and every
\* permutation of the list gives the same best_wpm.
C2_BestSpeedIsRoundedMax ==
  \A p \in Procs :
    LET data == net[p].data
        nums == {data[i].wpm.v : i \in {j \in Contributors(data, "wpm") :
                                          data[j].wpm.k \in {"num", "str"}}}
    IN  (Fetched(p) /\ RecordList(net[p]) /\ nums # {})
          => LET m == CHOOSE x \in nums : \A y \in nums : y <= x
             IN  /\ stats[p].some
                 /\ stats[p].best_wpm.k = "int"
                 /\ Abs(10 * stats[p].best_wpm.v - m) <= 5
                 /\ \A d \in Permutations(data) :
                      fetch_stats(Payload(d)).ret.best_wpm = stats[p].best_wpm

\* C3 as stated: an empty record list, and a list in which no record yields a
\* wpm or an acc, both give a summary with best_wpm = 0 and avg_acc = 0.
C3_ZeroSummaryAlsoWhenEmpty ==
  \A p \in Procs :
    (/\ Fetched(p)
     /\ RecordList(net[p])
     /\ Contributors(net[p].data, "wpm") = {}
     /\ Contributors(net[p].data, "acc") = {})
      => /\ stats[p].some
         /\ stats[p].best_wpm.v = 0
         /\ stats[p].avg_acc.v = 0

\* C3 as amended: a non-empty list in which no record yields a wpm or an acc
\* that float() accepts gives a summary with best_wpm = 0 and avg_acc = 0; an
\* empty list gives None.
C3_ZeroSummaryWhenAllInvalid ==
  \A p \in Procs :
    (/\ Fetched(p)
     /\ RecordList(net[p])
     /\ Contributors(net[p].data, "wpm") = {}
     /\ Contributors(net[p].data, "acc") = {})
      => IF net[p].data = <<>>
         THEN stats[p] = None
         ELSE /\ stats[p].some
              /\ stats[p].best_wpm = IntV(0)
              /\ stats[p].avg_acc.k \in {"int", "num"}
              /\ stats[p].avg_acc.v = 0

C3_Witness ==
  /\ Fetched(1)
  /\ net[1] = Payload(<<NonMapping, Mapping(Bad, Bad)>>)
  /\ stats[1] = Summary(IntV(0), IntV(0))

\* C4: main's label is "no data" exactly when fetch_stats returned None, and
\* otherwise "<best_wpm> WPM <middle dot> <avg_acc>%" with the single
\* character U+00B7 as separator; the scoreboard example gives
\* "120 WPM <middle dot> 96.1%".
C4_LabelHasSingleMiddleDot ==
  \A p \in Procs :
    pc[p] \in {"render_badge", "makedirs", "open", "write", "close", "print", "done"}
      => /\ (value_text[p] = <<"n", "o", " ", "d", "a", "t", "a">>) <=> ~stats[p].some
         /\ stats[p].some =>
              value_text[p] = str(stats[p].best_wpm)
                                \o <<" ", "W", "P", "M", " ", "U+00B7", " ">>
                                \o str(stats[p].avg_acc) \o <<"%">>
         /\ net[p] = Scoreboard =>
              value_text[p] = <<"1", "2", "0", " ", "W", "P", "M", " ", "U+00B7", " ",
                                "9", "6", ".", "1", "%">>

\* C5 as stated: each of the four failure kinds prints a diagnostic to stderr
\* before fetch_stats returns None, a timeout exactly one line.
C5_EveryFailureIsLogged ==
  \A p \in Procs :
    (Fetched(p) /\ FailedRequest(net[p]))
      => /\ stats[p] = None
         /\ Len(stderr[p]) >= 1
         /\ net[p].exc = "timeout" => Len(stderr[p]) = 1

\* C5 as amended: a transport failure, a non-success status and an undecodable
\* body each print exactly one diagnostic line before fetch_stats returns
\* None; a payload that is not a non-empty list returns None and prints
\* nothing.
C5_FailuresLoggedButShape ==
  \A p \in Procs :
    (Fetched(p) /\ FailedRequest(net[p]))
      => /\ stats[p] = None
         /\ TransportFailure(net[p]) => stderr[p] = <<"Request failed:">>
         /\ NonSuccessStatus(net[p]) => stderr[p] = <<"Unexpected status">>
         /\ UndecodableBody(net[p]) => stderr[p] = <<"Failed to decode JSON:">>
         /\ NotANonEmptyList(net[p]) => stderr[p] = <<>>

C5_Witness ==
  /\ Fetched(1)
  /\ net[1] = Payload(<<>>)
  /\ stats[1] = None
  /\ stderr[1] = <<>>

\* C6: whatever fetch_stats returned, one run of main whose arguments parsed
\* performs fetch, label, render, makedirs, open, write, close, print in this
\* order; the confirmation is printed only once the file is closed and holds
\* exactly the rendered markup, in place of whatever it held before; such a
\* run ends abnormally only by an OSError of makedirs, of open or of the close
\* that flushes the write, which leaves the file short of the markup: once
\* fetch_stats has returned, with a summary or with None, the run goes on to
\* the label.  A run that never fetched was ended by parse_args, with nothing
\* written to the file.
C6_RunOrder ==
  LET order == <<"parse_args", "fetch_stats", "value_text", "render_badge", "makedirs",
                 "open", "write", "close", "print">>
      p == 1
      markup == Utf8(svg[p])
  IN  /\ IsPrefix(steps[p], order)
      /\ (\E i \in 1..Len(stdout[p]) : stdout[p][i] = "Wrote badge to") =>
           /\ Len(steps[p]) = 9
           /\ file = [exists |-> TRUE, content |-> markup]
           /\ ~fd[p].open
      /\ Len(steps[p]) >= 7 =>
           /\ svg[p] # <<>>
           /\ svg[p] = render_badge(IF stats[p].some THEN value_text[p]
                                    ELSE <<"n", "o", " ", "d", "a", "t", "a">>)
      /\ Len(steps[p]) >= 8 => file = [exists |-> TRUE, content |-> markup]
      /\ pc[p] = "done" => stdout[p] = <<"Wrote badge to">> /\ dirExists
      /\ pc[p] = "crashed" =>
           /\ exc[p] = "OSError"
           /\ Len(steps[p]) \in {4, 5, 7}
           /\ steps[p][Len(steps[p])] \in {"render_badge", "makedirs", "write"}
           /\ stdout[p] = <<>>
           /\ ~fd[p].open
           /\ Len(steps[p]) = 7 =>
                /\ Len(file.content) < Len(markup)
                /\ IsPrefix(file.content, markup)
      /\ pc[p] = "exited" =>
           /\ steps[p] = <<>>
           /\ argv[p] # "username"
           /\ exc[p] \in {"SystemExit(0)", "SystemExit(2)"}
           /\ stats[p] = [some |-> FALSE, best_wpm |-> IntV(0), avg_acc |-> IntV(0)]
           /\ writes = <<>> /\ ~fd[p].open
           /\ file.exists => file.content = Utf8(render_badge(<<>>) \o render_badge(<<>>))
      /\ Len(steps[p]) >= 1 => argv[p] = "username"
      /\ Len(steps[p]) = 2 => pc[p] = "value_text" /\ ENABLED main(p)

C6_Witness ==
  /\ pc[1] = "done"
  /\ ~stats[1].some
  /\ net[1] = Timeout
  /\ file.content = Utf8(svg[1])
  /\ stdout[1] = <<"Wrote badge to">>

\* C7: the right segment is max(60, 7L + 20) wide for a text of L characters:
\* 60 for L <= 5, more than 60 for L >= 6, never narrower than for a shorter
\* text; the badge is 72 wider than the right segment, and the right text
\* centre lies strictly inside the right segment.
C7_RightWidth ==
  \A p \in Procs :
    pc[p] = "makedirs" =>
      LET L == Len(value_text[p])
          g == badge[p]
      IN  /\ L <= 5 => g.right_width = 60
          /\ L >= 6 => g.right_width = 7 * L + 20 /\ g.right_width > 60
          /\ \A n \in 0..L : right_width(n) <= g.right_width
          /\ g.width = 72 + g.right_width
          /\ g.right_center.k = "num"
          /\ 2 * g.right_center.v = 10 * (2 * 72 + g.right_width)
          /\ g.right_center.v > 10 * 72
          /\ g.right_center.v < 10 * g.width

C7_Witness ==
  /\ pc[1] = "makedirs"
  /\ Len(value_text[1]) = 6
  /\ badge[1].right_width = 62
  /\ badge[1].width = 134

\* The entity of a character, and a text with each character replaced by it.
EntityOf(c) ==
  CASE c = "&" -> <<"&", "a", "m", "p", ";">>
    [] c = "<" -> <<"&", "l", "t", ";">>
    [] c = ">" -> <<"&", "g", "t", ";">>
    [] c = "\"" -> <<"&", "q", "u", "o", "t", ";">>
    [] c = "'" -> <<"&", "#", "x", "2", "7", ";">>
    [] OTHER -> <<c>>

RECURSIVE Entities(_)
Entities(s) == IF s = <<>> THEN <<>> ELSE EntityOf(Head(s)) \o Entities(Tail(s))

\* s holds t at positions i .. i + Len(t) - 1.
HoldsAt(s, i, t) == i >= 1 /\ i + Len(t) - 1 <= Len(s) /\ SubSeq(s, i, i + Len(t) - 1) = t

\* The markup of the template itself, every field left empty.
Skeleton == Format(BADGE_TEMPLATE, [f \in {"width", "left_width", "right_width",
                                           "left_center", "right_center", "label",
                                           "value_text"} |-> <<>>])

\* C8: in the markup render_badge produces, every '<', '>' and '&' of the
\* input stands as its entity: the value text node holds the text with each
\* character replaced by its entity, the markup has no '<' or '>' beyond the
\* template's own, and each '&' in it (the template has none) starts an
\* entity, three per special character of the input (aria-label, title, text).
C8_Escaped ==
  \A p \in Procs :
    pc[p] = "makedirs" =>
      LET s == svg[p]
          t == value_text[p]
          e == Entities(t)
          close == BADGE_TEMPLATE[Len(BADGE_TEMPLATE)].text
          specials == Cardinality({i \in 1..Len(t) : t[i] \in {"<", ">", "&", "\"", "'"}})
      IN  /\ HoldsAt(s, Len(s) - Len(close) - Len(e) + 1, e)
          /\ s[Len(s) - Len(close) - Len(e)] = ">"
          /\ HoldsAt(s, Len(s) - Len(close) + 1, <<"<", "/", "t", "e", "x", "t", ">">>)
          /\ Count(s, "<") = Count(Skeleton, "<")
          /\ Count(s, ">") = Count(Skeleton, ">")
          /\ Count(Skeleton, "&") = 0
          /\ Count(s, "&") = 3 * specials
          /\ \A i \in 1..Len(s) :
               s[i] = "&" => \E c \in {"<", ">", "&", "\"", "'"} : HoldsAt(s, i, EntityOf(c))

C8_Witness ==
  /\ pc[1] = "makedirs"
  /\ value_text[1] = <<"<", "&">>
  /\ Count(svg[1], "&") = 6

\* C9: the speed list is exactly the wpm values float() accepts of the mapping
\* records, in order, and the accuracy list exactly their acc values: an entry
\* that is no mapping, or a field that fails, drops only itself.  avg_acc is
\* the mean of the accuracy list alone, rounded to a nearest tenth.
C9_PerRecordPerField ==
  \A p \in Procs :
    (Fetched(p) /\ RecordList(net[p]) /\ net[p].data # <<>>)
      => LET data == net[p].data
             k == Len(accs[p])
             total == Total(accs[p])
         IN  /\ stats[p].some
             /\ ListsField(wpms[p], data, "wpm")
             /\ ListsField(accs[p], data, "acc")
             /\ k = 0 => stats[p].avg_acc = IntV(0)
             /\ (k > 0 /\ \A i \in 1..k : accs[p][i].k = "num") =>
                  /\ stats[p].avg_acc.k \in {"num", "negzero"}
                  /\ 2 * Abs(k * stats[p].avg_acc.v - total) <= k

C9_Witness ==
  /\ Fetched(1)
  /\ net[1] = Payload(<<Mapping(Bad, JNum(973)), Mapping(JNum(1205), JNum(974))>>)
  /\ wpms[1] = <<Num(1205)>>
  /\ accs[1] = <<Num(973), Num(974)>>
  /\ stats[1] = Summary(IntV(120), Num(973))

\* Both runs have finished normally.
BothDone == \A p \in Procs : pc[p] = "done"

\* C10 as stated: once both runs have finished, the file holds exactly the
\* complete markup of the run that wrote last (the one whose close put its
\* bytes in the file last), never a mixture.
C10_LastWriterWins ==
  BothDone => file.content = Utf8(svg[writes[Len(writes)]])

\* C10 as amended: once both runs have finished, the file begins with the
\* complete markup of the run that closed last; it is exactly that markup
\* unless the other run's markup is longer, whose bytes beyond the last
\* closer's length may then follow it.
C10_LastWriterPrefix ==
  BothDone =>
    LET w == writes[Len(writes)]
        o == CHOOSE q \in Procs : q # w
        last == Utf8(svg[w])
        other == Utf8(svg[o])
    IN  /\ Len(writes) = 2
        /\ IsPrefix(last, file.content)
        /\ \/ file.content = last
           \/ /\ Len(other) > Len(last)
              /\ file.content = last \o SubSeq(other, Len(last) + 1, Len(other))

C10_Witness ==
  /\ BothDone
  /\ file.content # Utf8(svg[1])
  /\ file.content # Utf8(svg[2])
  /\ IsPrefix(Utf8(svg[writes[2]]), file.content)
====
